---- MODULE Spec2Model ----
(***************************************************************************)
(* State-machine model of the sample-generation core of the waveforms      *)
(* repository: PresetScore and ScaleRandomPlayer (utils/score.py), the     *)
(* ADSR envelope (utils/envelope.py), Player (utils/player.py),            *)
(* Instrument (utils/sampler.py), the pure functions sanitize,             *)
(* safe_division, sawtooth, mod, get_freq_from_scale_degree and            *)
(* get_freqs_from_scale__fixed_interval (utils/base.py),                   *)
(* Note.note_str2freq (utils/score.py) and the bit operations of the       *)
(* chaotic generator (wave002/waveform.py).                                *)
(*                                                                         *)
(* Numbers.  Times (durations, dt, elapsed time) are integer multiples of  *)
(* one tick; an amplitude is an exact fraction <<num, den>>.  The model    *)
(* computes in exact arithmetic what the code computes in binary floating  *)
(* point, so it abstracts from rounding, except in sawtooth, which rounds  *)
(* to a short mantissa, and in the generator, which works on the bits of   *)
(* single-precision floats.                                                *)
(*                                                                         *)
(* Each object is a record whose fields carry the attribute names of the   *)
(* source; each method is an operator from the object's record (and the    *)
(* call's arguments) to the record after the call and the value returned.  *)
(***************************************************************************)
EXTENDS Integers, Sequences, FiniteSets, TLC

VARIABLES
    op,       \* the operation performed by the last step ("init" at start)
    notes,    \* PresetScore: the constructor's argument, a list of Notes
    ps,       \* PresetScore: the instance's attributes
    sret,     \* PresetScore: value returned by the last get_note call
    scalls,   \* PresetScore: number of get_note calls so far when all of
              \* them used dt = 1 tick (saturating), -1 once one did not
    shold,    \* PresetScore: n = get_note calls that have returned the current
              \* note, all with the same dt; d = the duration it was dequeued
              \* with; n = 0 when the calls differed in dt or no note is held
    env,      \* ADSR: the envelope's attributes
    amp,      \* ADSR: amplitude returned by the last get_amplitude call
    raised,   \* the exception the last call raised, "none" if it returned
    ref,      \* ADSR: a second envelope, built and pressed like env and given
              \* the same get_amplitude calls, on which unpress is never called
    refamp,   \* ADSR: amplitude returned by ref's last get_amplitude call
    calls,    \* ADSR: get_amplitude calls since the last press() when all of
              \* them used dt = 1 tick (saturating), -1 once one did not
    rel,      \* ADSR: the same count since the unpress() that found the
              \* envelope pressed and in Sustain, -1 if there was none
    zero,     \* ADSR: a call counted by rel has returned amplitude 0
    was,      \* ADSR: env's status before the last operation on it
    ins,      \* Instrument: the instrument's attributes
    pl,       \* Player: the player's attributes (its envelope is env, its
              \* instrument is ins)
    sample,   \* Player: value returned by the last get_sample call
    ev,       \* Player: the envelope methods press and unpress that the last
              \* get_sample call invoked
    found,    \* Player: the envelope's status when the last get_sample call
              \* read its amplitude
    cyc,      \* Player: gap = get_sample calls since the last one that called
              \* press(), that one included; dt = the dt all of them used
              \* (-1 if they differ); lastgap, lastdt = the same for the
              \* cycle that ended at the last press()
    seed,     \* ScaleRandomPlayer: the seed given to both constructors
    prov,     \* ScaleRandomPlayer: what each callable given as base_note,
              \* min_note_duration or max_note_duration returns when called now
    srp,      \* ScaleRandomPlayer: the attributes of two instances built with
              \* the same arguments
    rret,     \* ScaleRandomPlayer: what each instance's last get_note call
              \* returned and raised, the callables it invoked, the number of
              \* notes the instance has drawn (saturating), and hold, the
              \* counters of shold for the instance's current note
    pend,     \* ScaleRandomPlayer: the dt values instance 1 was called with
              \* and instance 2 not yet
    pcall,    \* pure functions: the function under test and its arguments
    out       \* pure functions: what the call returned and raised

scoreVars == <<notes, ps, sret, scalls, shold>>
envVars   == <<env, amp, ref, refamp, calls, rel, zero, was>>
playerVars == <<ins, pl, sample, ev, found, cyc>>
randVars == <<seed, prov, srp, rret, pend>>
pureVars == <<pcall, out>>
vars == <<op, raised, scoreVars, envVars, playerVars, randVars, pureVars>>

(***************************************************************************)
(* Bounds of the model.                                                    *)
(***************************************************************************)
MaxNotes == 2       \* longest note list given to PresetScore
MaxDur   == 2       \* longest note duration, in ticks
MaxDt    == 2       \* largest dt of a call, in ticks
MaxCalls == 25      \* call counters saturate here

Min(a, b) == IF a < b THEN a ELSE b

\* Counter of the calls of a scenario: n calls so far, all with a dt of one
\* tick (the dt of the spec's scenarios); -1 once a call used another dt.
Count(n, dt) == IF n = -1 \/ dt # 1 THEN -1 ELSE Min(n + 1, MaxCalls)

\* no note held, or held by calls that differ in dt
NoHold == [n |-> 0, dt |-> -1, d |-> 0]
\* the hold counters h after a get_note(dt) call; fresh: the call took a new
\* note, of duration d
Hold(h, fresh, d, dt) ==
    IF fresh THEN [n |-> 1, dt |-> dt, d |-> d]
    ELSE IF h.n >= 1 /\ h.dt = dt THEN [h EXCEPT !.n = Min(h.n + 1, MaxDur + 2)]
    ELSE NoHold

(***************************************************************************)
(* utils/score.py: Note and PresetScore                                    *)
(***************************************************************************)
Pitches   == {440, 660, 880}
Durations == (-1)..MaxDur
ScoreDTs  == 0..MaxDt

\* Note(pitch, duration) with a numeric pitch
Note(pitch, duration) == [pitch |-> pitch, duration |-> duration]

RECURSIVE SeqsUpTo(_, _)
SeqsUpTo(S, n) ==
    IF n = 0 THEN {<<>>}
    ELSE LET shorter == SeqsUpTo(S, n - 1)
         IN  shorter \cup {Append(s, x) : s \in {q \in shorter : Len(q) = n - 1}, x \in S}

NoteLists == SeqsUpTo({Note(p, d) : p \in Pitches, d \in Durations}, MaxNotes)

\* the attribute _current_note does not exist before the first dequeue
NoCurrentNote == -1

\* PresetScore.__init__(notes)
PresetScore(ns) ==
    [score_end         |-> FALSE,
     durations         |-> [i \in 1..Len(ns) |-> ns[i].duration],
     frequencies       |-> [i \in 1..Len(ns) |-> ns[i].pitch],
     residual_duration |-> -1,
     current_note      |-> NoCurrentNote]

\* list.pop(0) raises IndexError on an empty list
PopRaises(q) == q = <<>>

\* list.pop(0): the element returned and the list left
Pop0_last(q) == [val |-> q[Len(q)], rest |-> SubSeq(q, 1, Len(q) - 1)]
Pop0(q) == [val |-> Head(q), rest |-> Tail(q)]

\* the test that decides whether get_note takes the next note
NeedsNote_le(s) == s.residual_duration <= 0
NeedsNote(s) == s.residual_duration < 0

\* the except IndexError branch of get_note: the score ended, return silence
ScoreEnded_keep(s) == [self |-> s, ret |-> 0]
ScoreEnded(s) == [self |-> [s EXCEPT !.score_end = TRUE], ret |-> 0]

\* the statements of get_note after the try block
PlayNote_twice(s, dt) ==
    [self |-> [s EXCEPT !.score_end = FALSE,
                        !.residual_duration = s.residual_duration - 2 * dt],
     ret  |-> s.current_note]
PlayNote(s, dt) ==
    [self |-> [s EXCEPT !.score_end = FALSE,
                        !.residual_duration = s.residual_duration - dt],
     ret  |-> s.current_note]

\* PresetScore.get_note(dt)
PresetScore_get_note(s, dt) ==
    IF NeedsNote(s)
    THEN IF PopRaises(s.frequencies) \/ PopRaises(s.durations)
         THEN ScoreEnded(s)
         ELSE PlayNote([s EXCEPT !.current_note = Pop0(s.frequencies).val,
                                 !.frequencies = Pop0(s.frequencies).rest,
                                 !.residual_duration = Pop0(s.durations).val,
                                 !.durations = Pop0(s.durations).rest], dt)
    ELSE PlayNote(s, dt)

ScoreStart(ns) ==
    /\ notes = ns
    /\ ps = PresetScore(notes)
    /\ sret = NoCurrentNote
    /\ scalls = 0
    /\ shold = NoHold

get_note(dt) ==
    /\ op' = "get_note"
    /\ raised' = "none"
    /\ ps' = PresetScore_get_note(ps, dt).self
    /\ sret' = PresetScore_get_note(ps, dt).ret
    /\ scalls' = Count(scalls, dt)
    /\ shold' = IF NeedsNote(ps) /\ (PopRaises(ps.frequencies) \/ PopRaises(ps.durations))
                THEN NoHold
                ELSE Hold(shold, NeedsNote(ps),
                          IF NeedsNote(ps) THEN Pop0(ps.durations).val ELSE 0, dt)
    /\ UNCHANGED <<notes, envVars, playerVars, randVars, pureVars>>

NextScore == \E dt \in ScoreDTs : get_note(dt)

(***************************************************************************)
(* utils/envelope.py: ADSR                                                 *)
(***************************************************************************)
ATTACK  == 0
DECAY   == 1
SUSTAIN == 2
RELEASE == 3
\* _status is None: the envelope is idle
NONE    == -1

\* an amplitude: the fraction n/d
Frac(n, d) == <<n, d>>
FracEq(a, b) == a[1] * b[2] = b[1] * a[2]
FracLe(a, b) == IF (a[2] > 0) = (b[2] > 0)
                THEN a[1] * b[2] <= b[1] * a[2]
                ELSE a[1] * b[2] >= b[1] * a[2]
Zero == Frac(0, 1)
One  == Frac(1, 1)

\* ADSR.__init__(attack, decay, sustain, release).  The attributes _t and
\* _cur_vol do not exist before the first press(); they read 0 here and no
\* method reads them before press() has set them.
ADSR(attack, decay, sustain, release) ==
    [attack  |-> attack,
     decay   |-> decay,
     sustain |-> sustain,
     release |-> release,
     pressed |-> FALSE,
     status  |-> NONE,
     t       |-> 0,
     cur_vol |-> 0]

\* ADSR.press()
ADSR_press_keep_t(e) ==
    [e EXCEPT !.status = ATTACK, !.cur_vol = 0, !.pressed = TRUE]
ADSR_press(e) ==
    [e EXCEPT !.status = ATTACK, !.t = 0, !.cur_vol = 0, !.pressed = TRUE]

\* ADSR.unpress()
ADSR_unpress_release(e) == [e EXCEPT !.pressed = FALSE, !.status = RELEASE, !.t = 0]
ADSR_unpress(e) == [e EXCEPT !.pressed = FALSE]

\* a call that returns v and leaves the envelope as s
Returns(s, v) == [self |-> s, ret |-> v, raised |-> "none"]
\* a call that raises: the envelope is left as it was
Raises(s, x) == [self |-> s, ret |-> Zero, raised |-> x]

\* the end of get_amplitude, reached when no branch returned: _t += dt
Advance(e, dt, ret) == Returns([e EXCEPT !.t = e.t + dt], ret)

\* the comparisons self._t > self.attack, self._t > self.decay and
\* self._t > self.release
StageOver_ge(t, limit) == t >= limit
StageOver(t, limit) == t > limit

\* ret = self._t/self.attack
AttackAmp(e) == Frac(e.t, e.attack)
\* ret = 1 - (1 - self.sustain)*self._t/self.decay
DecayAmp_to_zero(e) == Frac(e.decay - e.t, e.decay)
DecayAmp(e) ==
    Frac(e.sustain[2] * e.decay - (e.sustain[2] - e.sustain[1]) * e.t,
         e.sustain[2] * e.decay)
\* ret = self.sustain * (1 - self._t/self.release)
ReleaseAmp_rising(e) == Frac(e.sustain[1] * e.t, e.sustain[2] * e.release)
ReleaseAmp(e) ==
    Frac(e.sustain[1] * (e.release - e.t), e.sustain[2] * e.release)

\* the ATTACK branch
AttackBranch_released(e, dt) ==
    IF ~e.pressed
    THEN Returns([e EXCEPT !.t = 0, !.status = RELEASE], AttackAmp(e))
    ELSE IF StageOver(e.t, e.attack)
         THEN Returns([e EXCEPT !.t = 0, !.status = DECAY], One)
         ELSE Advance(e, dt, AttackAmp(e))
AttackBranch_postincrement(e, dt) ==
    IF e.attack = 0 THEN Raises(e, "ZeroDivisionError")
    ELSE IF StageOver(e.t + dt, e.attack)
         THEN Returns([e EXCEPT !.t = 0, !.status = DECAY], One)
         ELSE Advance(e, dt, AttackAmp(e))
AttackBranch(e, dt) ==
    IF e.attack = 0 THEN Raises(e, "ZeroDivisionError")
    ELSE IF StageOver(e.t, e.attack)
         THEN Returns([e EXCEPT !.t = 0, !.status = DECAY], One)
         ELSE Advance(e, dt, AttackAmp(e))

\* the DECAY branch
DecayBranch(e, dt) ==
    IF e.decay = 0 THEN Raises(e, "ZeroDivisionError")
    ELSE IF StageOver(e.t, e.decay)
         THEN Returns([e EXCEPT !.t = 0, !.status = SUSTAIN], e.sustain)
         ELSE Advance(e, dt, DecayAmp(e))

\* the SUSTAIN branch
SustainBranch_hold(e, dt) == Returns(e, e.sustain)
SustainBranch(e, dt) ==
    IF e.pressed
    THEN Returns(e, e.sustain)
    ELSE Returns([e EXCEPT !.status = RELEASE, !.t = 0], e.sustain)

\* the RELEASE branch
ReleaseBranch_loop(e, dt) ==
    IF e.release = 0 THEN Raises(e, "ZeroDivisionError")
    ELSE IF StageOver(e.t, e.release)
         THEN Returns([e EXCEPT !.t = 0], Zero)
         ELSE Advance(e, dt, ReleaseAmp(e))
ReleaseBranch(e, dt) ==
    IF e.release = 0 THEN Raises(e, "ZeroDivisionError")
    ELSE IF StageOver(e.t, e.release)
         THEN Returns([e EXCEPT !.t = 0, !.status = NONE], Zero)
         ELSE Advance(e, dt, ReleaseAmp(e))

\* ADSR.get_amplitude(dt)
ADSR_get_amplitude(e, dt) ==
    CASE e.status = NONE    -> Returns(e, Zero)
      [] e.status = ATTACK  -> AttackBranch(e, dt)
      [] e.status = DECAY   -> DecayBranch(e, dt)
      [] e.status = SUSTAIN -> SustainBranch(e, dt)
      [] e.status = RELEASE -> ReleaseBranch(e, dt)
      [] OTHER              -> Raises(e, "ValueError")

\* the ADSR of the spec's scenario, ADSR(0.1, 0.1, 0.5, 0.2), one tick being
\* dt = 0.01 s
ScenarioADSR == ADSR(10, 10, Frac(1, 2), 20)

MaxStage == 2       \* longest attack, decay and release of the other envelopes
Sustains == {Frac(0, 1), Frac(1, 2), Frac(1, 1)}
EnvDTs   == 0..MaxDt

Envelopes ==
    {ScenarioADSR} \cup
    {ADSR(a, d, s, r) : a \in 1..MaxStage, d \in 1..MaxStage,
                        s \in Sustains, r \in 1..MaxStage}

EnvStart(e) ==
    /\ env = e
    /\ ref = e
    /\ amp = Zero
    /\ refamp = Zero
    /\ calls = -1
    /\ rel = -1
    /\ zero = FALSE
    /\ was = NONE

press ==
    /\ op' = "press"
    /\ was' = env.status
    /\ env' = ADSR_press(env)
    /\ ref' = ADSR_press(ref)
    /\ raised' = "none"
    /\ calls' = 0
    /\ rel' = -1
    /\ zero' = FALSE
    /\ UNCHANGED <<amp, refamp, scoreVars, playerVars, randVars, pureVars>>

unpress ==
    /\ op' = "unpress"
    /\ was' = env.status
    /\ env' = ADSR_unpress(env)
    /\ raised' = "none"
    /\ rel' = IF env.pressed /\ env.status = SUSTAIN THEN 0 ELSE rel
    /\ UNCHANGED <<amp, ref, refamp, calls, zero, scoreVars, playerVars, randVars, pureVars>>

get_amplitude(dt) ==
    /\ op' = "get_amplitude"
    /\ was' = env.status
    /\ env' = ADSR_get_amplitude(env, dt).self
    /\ amp' = ADSR_get_amplitude(env, dt).ret
    /\ raised' = ADSR_get_amplitude(env, dt).raised
    /\ ref' = ADSR_get_amplitude(ref, dt).self
    /\ refamp' = ADSR_get_amplitude(ref, dt).ret
    /\ calls' = Count(calls, dt)
    /\ rel' = Count(rel, dt)
    /\ zero' = (zero \/ (Count(rel, dt) >= 1 /\ FracEq(amp', Zero)))
    /\ UNCHANGED <<scoreVars, playerVars, randVars, pureVars>>

NextEnv ==
    \/ press
    \/ unpress
    \/ \E dt \in EnvDTs : get_amplitude(dt)

(***************************************************************************)
(* utils/sampler.py: Instrument                                            *)
(***************************************************************************)
\* Instrument.__init__(freqs, amps): the timbre
Instrument(freqs, amps) == [freqs |-> freqs, amps |-> amps]

\* np.sin(2*pi*x) for x = q/4 turns, q an integer: the model gives
\* get_sample times and frequencies whose product is a whole number of quarter
\* turns, where the sine is 0, 1, 0, -1
SinQuarter(q) == CASE q % 4 = 0 -> 0
                   [] q % 4 = 1 -> 1
                   [] q % 4 = 2 -> 0
                   [] q % 4 = 3 -> -1

RECURSIVE PartialSum(_, _, _, _)
\* (self.amps * np.sin(2*np.pi*f*self.freqs*t)).sum() over partials 1..n
PartialSum(i, n, t, f) ==
    IF n = 0 THEN 0
    ELSE PartialSum(i, n - 1, t, f) + i.amps[n] * SinQuarter(f * i.freqs[n] * t)

\* a sample normalised into [-1, 1]
Instrument_get_sample_clamped(i, t, f, volume) ==
    LET x == Frac(volume[1] * PartialSum(i, Len(i.freqs), t, f), volume[2])
    IN  IF x[1] > x[2] THEN One ELSE IF x[1] < -x[2] THEN Frac(-1, 1) ELSE x

\* Instrument.get_sample(t, f, volume)
Instrument_get_sample(i, t, f, volume) ==
    Frac(volume[1] * PartialSum(i, Len(i.freqs), t, f), volume[2])

Instruments == {Instrument(<<1>>, <<1>>), Instrument(<<1, 3>>, <<2, 1>>)}

(***************************************************************************)
(* utils/player.py: Player                                                 *)
(***************************************************************************)
\* the attribute _t does not exist before the first press
NoT == -1

\* Player.__init__(instrument, envelope, press_time)
Player(press_time) == [press_time |-> press_time, t |-> NoT]

\* the test self._t > self._press_time
PressOver_ge(t, press_time) == t >= press_time
PressOver(t, press_time) == t > press_time

\* Player.get_sample(t, freq, dt) on player p with envelope e and instrument i:
\* the player and the envelope after the call, the value returned, the
\* envelope methods press and unpress invoked, the envelope's status when
\* get_amplitude was called
Player_get_sample(p, e, i, t, freq, dt) ==
    LET pressing == ~e.pressed
        e1 == IF pressing THEN ADSR_press(e) ELSE e
        t0 == IF pressing THEN 0 ELSE p.t
        t1 == t0 + dt
        over == PressOver(t1, p.press_time)
        e2 == IF over THEN ADSR_unpress(e1) ELSE e1
        a  == ADSR_get_amplitude(e2, dt)
    IN  IF t0 = NoT
        THEN [self |-> p, env |-> e, ret |-> Zero, amp |-> Zero,
              raised |-> "AttributeError", ev |-> {}, found |-> e.status]
        ELSE [self   |-> [p EXCEPT !.t = IF over THEN 0 ELSE t1],
              env    |-> a.self,
              amp    |-> a.ret,
              ret    |-> IF a.raised = "none"
                         THEN Instrument_get_sample(i, t, freq, a.ret)
                         ELSE Zero,
              raised |-> a.raised,
              found  |-> e2.status,
              ev     |-> (IF pressing THEN {"press"} ELSE {}) \cup
                         (IF over THEN {"unpress"} ELSE {})]

MaxPress  == 4      \* longest press_time, in ticks
MaxTime   == 1      \* largest time t given to get_sample, in ticks
PressTimes == 0..MaxPress
Times      == 0..MaxTime
Freqs      == {1, 3}
PlayerDTs  == 0..MaxDt
PlayerEnvelopes ==
    {ADSR(1, 1, Frac(1, 2), 1), ADSR(2, 2, Frac(1, 2), 2), ADSR(1, 2, Frac(1, 1), 3)}

PlayerStart(i, press_time) ==
    /\ ins = i
    /\ pl = Player(press_time)
    /\ sample = Zero
    /\ ev = {}
    /\ found = NONE
    /\ cyc = [gap |-> 0, dt |-> -1, lastgap |-> 0, lastdt |-> -1]

\* the cycle counters after a get_sample call of the given dt
Cycle(c, pressing, dt) ==
    IF pressing
    THEN [gap |-> 1, dt |-> dt, lastgap |-> c.gap, lastdt |-> c.dt]
    ELSE [c EXCEPT !.gap = Min(c.gap + 1, MaxPress + 2),
                   !.dt = IF c.dt = dt THEN dt ELSE -1]

get_sample(t, freq, dt) ==
    LET r == Player_get_sample(pl, env, ins, t, freq, dt)
    IN  /\ op' = "get_sample"
        /\ pl' = r.self
        /\ env' = r.env
        /\ amp' = r.amp
        /\ sample' = r.ret
        /\ raised' = r.raised
        /\ ev' = r.ev
        /\ found' = r.found
        /\ cyc' = Cycle(cyc, ~env.pressed, dt)
        /\ was' = env.status
        /\ UNCHANGED <<ins, ref, refamp, calls, rel, zero, scoreVars, randVars, pureVars>>

NextPlayer ==
    \E t \in Times, freq \in Freqs, dt \in PlayerDTs : get_sample(t, freq, dt)

(***************************************************************************)
(* utils/base.py: get_freq_from_interval                                   *)
(***************************************************************************)
\* get_freq_from_interval(base_note, note_interval): the frequency
\* base_note * 2**(note_interval/12), kept as the pair of its base and its
\* interval in semitones
get_freq_from_interval(base_note, note_interval) ==
    [base |-> base_note, semitones |-> note_interval]

(***************************************************************************)
(* utils/score.py: ScaleRandomPlayer                                       *)
(*                                                                         *)
(* random.Random is modelled by a linear congruential generator over       *)
(* 0..RndMod-1: each draw advances the state x and yields x/RndMod in      *)
(* [0, 1).  note_duration and the dt subtracted from it are counted in     *)
(* 1/RndMod of a tick, so that uniform(a, b) = a + (b-a)*x/RndMod is exact.*)
(***************************************************************************)
RndMod == 4         \* number of states of the generator

\* an attribute that is None, and one that holds v
None == <<>>
Some(v) == <<v>>

\* seed = None: the generator is seeded from the system's entropy
NoSeed == -1
Seeds  == {NoSeed, 0, 1}

\* random.Random(seed): the states the new generator may be in
Random_unseeded(sd) == 0..(RndMod - 1)
Random(sd) == IF sd = NoSeed THEN 0..(RndMod - 1) ELSE {sd % RndMod}

\* one draw: the generator's next state
RndNext(x) == (5 * x + 3) % RndMod

\* rnd.uniform(a, b) = a + (b-a)*random(), in 1/RndMod of a tick, from the
\* state x the draw produced
uniform(x, a, b) == a * RndMod + (b - a) * x

\* rnd.choice(seq) = seq[floor(random()*len(seq))], from the state x the draw
\* produced; raises IndexError on an empty seq
choice_index(x, seq) == (x * Len(seq)) \div RndMod + 1
choice(x, seq) == seq[(x * Len(seq)) \div RndMod + 1]

\* a constructor argument that is a number, and one that is a callable
Const(v) == [callable |-> FALSE, value |-> v]
Callable(name) == [callable |-> TRUE, value |-> name]

\* ScaleRandomPlayer._get_or_call(var), pv being what the callables return now
get_or_call(var, pv) == IF var.callable THEN pv[var.value] ELSE var.value
\* the callables one _get_or_call(var) invokes, in order
Invocations(var) == IF var.callable THEN <<var.value>> ELSE <<>>

\* ScaleRandomPlayer.__init__(scale, base_note, seed, min_note_duration,
\* max_note_duration), x being the state of the generator Random(seed) made
ScaleRandomPlayer(scale, base_note, x, min_note_duration, max_note_duration) ==
    [rnd               |-> x,
     scale             |-> scale,
     base_note         |-> base_note,
     min_note_duration |-> min_note_duration,
     max_note_duration |-> max_note_duration,
     note_duration     |-> None,
     note_freq         |-> None]

\* the test that decides whether get_note draws a new note
NeedsDraw_le(s) == s.note_duration = None \/ s.note_duration[1] <= 0
NeedsDraw(s) == s.note_duration = None \/ s.note_duration[1] < 0

\* ScaleRandomPlayer.get_note(dt) on instance s, pv being what the callables
\* return now: the instance after the call, the value returned and the
\* callables invoked, in order.  With an empty scale rnd.choice raises
\* IndexError after note_duration was assigned.
ScaleRandomPlayer_get_note(s, pv, dt) ==
    LET base_note == get_or_call(s.base_note, pv)
        min_note_duration == get_or_call(s.min_note_duration, pv)
        max_note_duration == get_or_call(s.max_note_duration, pv)
        x1 == RndNext(s.rnd)
        x2 == RndNext(x1)
        d  == Some(uniform(x1, min_note_duration, max_note_duration))
        drawn == [s EXCEPT !.rnd = x2,
                           !.note_duration = d,
                           !.note_freq = Some(get_freq_from_interval(
                                            base_note, choice(x2, s.scale)))]
        s1 == IF NeedsDraw(s) THEN drawn ELSE s
        invoked == IF NeedsDraw(s)
                   THEN Invocations(s.base_note)
                        \o Invocations(s.min_note_duration)
                        \o Invocations(s.max_note_duration)
                   ELSE <<>>
    IN  IF NeedsDraw(s) /\ s.scale = <<>>
        THEN [self    |-> [s EXCEPT !.rnd = x2, !.note_duration = d],
              ret     |-> None,
              raised  |-> "IndexError",
              invoked |-> invoked]
        ELSE [self    |-> [s1 EXCEPT !.note_duration =
                                       Some(s1.note_duration[1] - dt * RndMod)],
              ret     |-> s1.note_freq,
              raised  |-> "none",
              invoked |-> invoked]

Scales     == {<<>>, <<0, 7>>, <<0, 2, 4, 5>>}
\* base_note, min_note_duration and max_note_duration of the instances built
Knobs ==
    {<<Const(440), Const(0), Const(2)>>,
     <<Const(440), Const(1), Const(1)>>,
     <<Callable("base_note"), Const(0), Const(2)>>,
     <<Const(220), Callable("min_note_duration"), Callable("max_note_duration")>>}
\* the values a callable given for a constructor argument may return
ProviderValues ==
    [base_note |-> {220, 440}, min_note_duration |-> {0, 1},
     max_note_duration |-> {1, 2}]
\* the constructor arguments that are callables
Callables(s) ==
    {n \in {"base_note", "min_note_duration", "max_note_duration"} : s[n].callable}
RandDTs    == 0..MaxDt

MaxDraws == 2       \* the count of notes drawn saturates here

NoCall == [ret |-> None, raised |-> "none", invoked |-> <<>>, draws |-> 0,
           hold |-> NoHold]

RandStart(scale, base_note, sd, min_note_duration, max_note_duration) ==
    /\ seed = sd
    /\ srp \in [{1, 2} -> {ScaleRandomPlayer(scale, base_note, x, min_note_duration,
                                             max_note_duration) : x \in Random(sd)}]
    /\ prov \in [Callables(srp[1]) -> {220, 440, 0, 1, 2}]
    /\ \A n \in Callables(srp[1]) : prov[n] \in ProviderValues[n]
    /\ rret = [i \in {1, 2} |-> NoCall]
    /\ pend = <<>>

\* get_note(dt) on instance i
srp_get_note(i, dt) ==
    LET r == ScaleRandomPlayer_get_note(srp[i], prov, dt)
    IN  /\ op' = "srp_get_note"
        /\ srp' = [srp EXCEPT ![i] = r.self]
        /\ rret' = [rret EXCEPT ![i] =
                       [ret |-> r.ret, raised |-> r.raised, invoked |-> r.invoked,
                        draws |-> IF NeedsDraw(srp[i])
                                  THEN Min(rret[i].draws + 1, MaxDraws)
                                  ELSE rret[i].draws,
                        hold |-> IF r.raised # "none" THEN NoHold
                                 ELSE Hold(rret[i].hold, NeedsDraw(srp[i]),
                                           r.self.note_duration[1] + dt * RndMod,
                                           dt)]]
        /\ raised' = r.raised
        /\ UNCHANGED <<seed, prov, scoreVars, envVars, playerVars, pureVars>>

\* the driver of instance 1 calls get_note with a dt of its choice
first_get_note(dt) ==
    /\ pend = <<>>
    /\ srp_get_note(1, dt)
    /\ pend' = <<dt>>

\* the driver of instance 2 repeats the call on instance 2
second_get_note ==
    /\ pend # <<>>
    /\ srp_get_note(2, Head(pend))
    /\ pend' = Tail(pend)

\* a callable given to the constructors starts returning another value; the
\* call repeated on instance 2 is given what the call on instance 1 was given
provider_change(n, v) ==
    /\ pend = <<>>
    /\ n \in Callables(srp[1])
    /\ v \in ProviderValues[n] \ {prov[n]}
    /\ op' = "provider_change"
    /\ prov' = [prov EXCEPT ![n] = v]
    /\ UNCHANGED <<raised, seed, srp, rret, pend, scoreVars, envVars, playerVars, pureVars>>

NextRand ==
    \/ \E dt \in RandDTs : first_get_note(dt)
    \/ second_get_note
    \/ \E n \in DOMAIN prov, v \in {220, 440, 0, 1, 2} : provider_change(n, v)

(***************************************************************************)
(* utils/base.py: sanitize, safe_division, mod, get_freq_from_scale_degree *)
(*                                                                         *)
(* A float is a pair <<n, d>> with d >= 0: the number n/d when d > 0, and  *)
(* for d = 0 the values <<1, 0>> = +inf, <<-1, 0>> = -inf, <<0, 0>> = NaN. *)
(* Comparisons with NaN are false, as in the code's arithmetic.            *)
(***************************************************************************)
PosInf == Frac(1, 0)
NegInf == Frac(-1, 0)
NaN    == Frac(0, 0)

\* math.isnan(x)
isnan(x) == x[1] = 0 /\ x[2] = 0
IsFinite(x) == x[2] > 0

\* x < y, x > y and x == y on floats
Lt(x, y) ==
    /\ ~isnan(x) /\ ~isnan(y)
    /\ IF x[2] = 0 /\ y[2] = 0 THEN x[1] < y[1] ELSE x[1] * y[2] < y[1] * x[2]
Gt(x, y) == Lt(y, x)
Eq(x, y) ==
    /\ ~isnan(x) /\ ~isnan(y)
    /\ IF x[2] = 0 \/ y[2] = 0 THEN x = y ELSE x[1] * y[2] = y[1] * x[2]

\* a call that returns v, and a call that raises x
Ret(v) == [ret |-> v, raised |-> "none"]
Exc(x) == [ret |-> None, raised |-> x]

\* sanitize(x)
sanitize_keep_nan(x) ==
    IF Gt(x, One) THEN Ret(One)
    ELSE IF Lt(x, One) THEN Ret(Frac(-1, 1))
    ELSE Ret(x)
sanitize(x) ==
    IF Gt(x, One) THEN Ret(One)
    ELSE IF Lt(x, One) THEN Ret(Frac(-1, 1))
    ELSE IF isnan(x) THEN Ret(Zero)
    ELSE Ret(x)

\* num/den on floats with den # 0: the sign is carried by the numerator
Sign(n) == IF n > 0 THEN 1 ELSE IF n < 0 THEN -1 ELSE 0
Div(num, den) ==
    LET sg == IF den[1] < 0 THEN -1 ELSE 1
        n  == sg * num[1] * den[2]
        d  == sg * num[2] * den[1]
    IN  IF d = 0 THEN Frac(Sign(n), 0) ELSE Frac(n, d)

\* num/den as Python evaluates it: a zero denominator raises
TrueDiv(num, den) ==
    IF Eq(den, Zero) THEN Exc("ZeroDivisionError") ELSE Ret(Div(num, den))

\* safe_division(num, den)
safe_division_unguarded(num, den) == TrueDiv(num, den)
safe_division(num, den) ==
    IF Eq(den, Zero)
    THEN IF Gt(num, Zero) THEN Ret(PosInf)
         ELSE IF Lt(num, Zero) THEN Ret(NegInf)
         ELSE Ret(NaN)
    ELSE TrueDiv(num, den)

\* a real number x, and the complex number re + im*j
Real(x) == [complex |-> FALSE, re |-> x, im |-> 0]
Complex(re, im) == [complex |-> TRUE, re |-> re, im |-> im]

MaxNum == 3         \* largest numerator, real part and imaginary part

\* abs(z), for the z whose magnitude is a whole number
HasAbs(z) == \E m \in 0..(2 * MaxNum) : m * m = z.re * z.re + z.im * z.im
abs(z) == CHOOSE m \in 0..(2 * MaxNum) : m * m = z.re * z.re + z.im * z.im

\* a % b on reals, b # 0: the result has the sign of b
PyMod(a, b) == IF b > 0 THEN a % b ELSE -((-a) % (-b))

\* mod(a, b)
mod(a, b) ==
    LET a1 == IF a.complex THEN abs(a) ELSE a.re
        b1 == IF b.complex THEN abs(b) ELSE b.re
    IN  IF b1 = 0 THEN Ret(0) ELSE Ret(PyMod(a1, b1))

\* scale[i] on a list: a negative i counts from the end
HasItem(seq, i) == -Len(seq) <= i /\ i < Len(seq)
GetItem(seq, i) == IF i < 0 THEN seq[Len(seq) + i + 1] ELSE seq[i + 1]

\* get_freq_from_scale_degree(i, base_note, scale)
get_freq_from_scale_degree(i, base_note, scale) ==
    IF HasItem(scale, i)
    THEN Ret(get_freq_from_interval(base_note, GetItem(scale, i)))
    ELSE Exc("IndexError")

(***************************************************************************)
(* utils/base.py: sawtooth and get_freqs_from_scale__fixed_interval        *)
(*                                                                         *)
(* sawtooth is modelled in binary floating point: a float is a fraction    *)
(* n/d with d a power of two, and the result of an operation is rounded to *)
(* MantBits significant bits, ties to even (the code's floats have 53).    *)
(***************************************************************************)
MantBits == 3       \* significant bits of a float

RECURSIVE Pow2(_)
Pow2(k) == IF k = 0 THEN 1 ELSE 2 * Pow2(k - 1)

Abs(n) == IF n < 0 THEN -n ELSE n

\* a/b rounded to the nearest integer, ties to even, for a >= 0 and b > 0
RoundHalfEven(a, b) ==
    LET q == a \div b
        r == a % b
    IN  IF 2 * r < b THEN q
        ELSE IF 2 * r > b THEN q + 1
        ELSE q + (q % 2)

\* the float nearest to the number x
Round(x) ==
    IF x[1] = 0 THEN x
    ELSE LET a == Abs(x[1])
             Num(e) == IF e >= 0 THEN a ELSE a * Pow2(-e)
             Den(e) == IF e >= 0 THEN x[2] * Pow2(e) ELSE x[2]
             e == CHOOSE k \in (-(4 * MantBits))..(4 * MantBits) :
                      /\ Pow2(MantBits - 1) * Den(k) <= Num(k)
                      /\ Num(k) < Pow2(MantBits) * Den(k)
             m == RoundHalfEven(Num(e), Den(e))
         IN  IF e >= 0 THEN Frac(Sign(x[1]) * m * Pow2(e), 1)
             ELSE Frac(Sign(x[1]) * m, Pow2(-e))

\* x * y, x + y and x - y on numbers, before rounding
Mul(x, y) == Frac(x[1] * y[1], x[2] * y[2])
Add(x, y) == Frac(x[1] * y[2] + y[1] * x[2], x[2] * y[2])
Sub(x, y) == Add(x, Frac(-y[1], y[2]))

\* math.fmod(x, y) for y > 0: the remainder with the sign of x, exact
fmod(x, y) ==
    Frac(Sign(x[1]) * ((Abs(x[1]) * y[2]) % (y[1] * x[2])), x[2] * y[2])

\* x % y on floats, y > 0: fmod, to which y is added when it is negative
FloatMod(x, y) ==
    IF fmod(x, y)[1] < 0 THEN Round(Add(fmod(x, y), y)) ELSE fmod(x, y)

\* sawtooth(t, f)
sawtooth(t, f) ==
    Ret(Round(Sub(FloatMod(Round(Mul(Round(Mul(Frac(2, 1), f)), t)), Frac(2, 1)),
                  One)))

\* t // interval on whole numbers, interval > 0
FloorDiv(t, interval) == t \div interval

\* get_freqs_from_scale__fixed_interval(t, interval, base_note, scale)
get_freqs_from_scale__fixed_interval(t, interval, base_note, scale) ==
    IF interval = 0 \/ scale = <<>> THEN Exc("ZeroDivisionError")
    ELSE get_freq_from_scale_degree(
             PyMod(FloorDiv(t, interval), Len(scale)), 440, scale)

(***************************************************************************)
(* wave002/waveform.py: the modulation value of the chaotic generator      *)
(*                                                                         *)
(* A single-precision float is its sign bit and mag, the other 31 bits of  *)
(* its pattern: the 8-bit exponent field times 2^23 plus the 23-bit        *)
(* mantissa field.  For finite floats |x| <= |y| iff x.mag <= y.mag.       *)
(***************************************************************************)
Single(sign, mag) == [sign |-> sign, mag |-> mag]

\* the exponent field of a single, all ones for the infinities and the NaNs
ExponentField(x) == x.mag \div Pow2(23)
\* x < 0
Negative(x) == x.sign = 1 /\ x.mag > 0 /\ x.mag <= 255 * Pow2(23)

\* s = struct.Struct("<f"); s.pack(x): the four bytes, least significant first
pack(x) ==
    <<x.mag % 256, (x.mag \div 256) % 256, (x.mag \div 65536) % 256,
      x.sign * 128 + (x.mag \div 16777216)>>
\* s.unpack(bytes)[0]
unpack(b) ==
    Single(b[4] \div 128, (b[4] % 128) * 16777216 + b[3] * 65536 + b[2] * 256 + b[1])

\* float2bits(x): the bits of each byte of s.pack(x), most significant first
float2bits(x) ==
    [k \in 1..32 |-> (pack(x)[((k - 1) \div 8) + 1] \div Pow2(7 - ((k - 1) % 8))) % 2]

\* bitand(bits_left, bits_right); the assert fails on lists of unequal length
bitor(bits_left, bits_right) ==
    [i \in 1..Len(bits_left) |->
        IF bits_left[i] = 1 \/ bits_right[i] = 1 THEN 1 ELSE 0]
bitand(bits_left, bits_right) ==
    [i \in 1..Len(bits_left) |->
        IF bits_left[i] = 1 /\ bits_right[i] = 1 THEN 1 ELSE 0]

\* x += b*(1 << j) for the bits i+1..i+n of bits, j counting down to 0
RECURSIVE ByteOf(_, _, _)
ByteOf(bits, i, n) ==
    IF n = 0 THEN 0 ELSE 2 * ByteOf(bits, i, n - 1) + bits[i + n]

\* bits2float(bits)
bits2float(bits) ==
    unpack(<<ByteOf(bits, 0, 8), ByteOf(bits, 8, 8), ByteOf(bits, 16, 8),
             ByteOf(bits, 24, 8)>>)

\* tmp in f(t, T, n, s), a and b being what math.sin(t/5+0.3) and
\* math.sin(t/3+1.4) are in single precision; f returns sin(t*tmp, 220)
wave002_f(a, b) == Ret(bits2float(bitand(float2bits(a), float2bits(b))))

\* the singles of magnitude at most 1 the model gives as sines: zero, the
\* smallest subnormal, small and large normals, 1
SineExponents == {0, 1, 85, 126}
SineMantissas == {0, 1, 4194304, 2796202, 5592405, 8388607}
Sines ==
    {Single(sg, e * Pow2(23) + m) :
        sg \in {0, 1}, e \in SineExponents, m \in SineMantissas}
    \cup {Single(0, 127 * Pow2(23)), Single(1, 127 * Pow2(23))}

(***************************************************************************)
(* utils/score.py: Note.note_str2freq and Note built from a string pitch    *)
(*                                                                         *)
(* A str is the sequence of its characters.  The frequency returned,       *)
(* 440 * 2**e, is kept as its exponent e in octaves, an exact fraction.    *)
(***************************************************************************)
\* Note.base_notes
base_notes ==
    (<<"C">> :> -9) @@ (<<"C", "#">> :> -8) @@ (<<"D", "b">> :> -8) @@
    (<<"D">> :> -7) @@ (<<"D", "#">> :> -6) @@ (<<"E", "b">> :> -6) @@
    (<<"E">> :> -5) @@ (<<"F">> :> -4) @@ (<<"F", "#">> :> -3) @@
    (<<"G", "b">> :> -3) @@ (<<"G">> :> -2) @@ (<<"G", "#">> :> -1) @@
    (<<"A", "b">> :> -1) @@ (<<"A">> :> 0) @@ (<<"A", "#">> :> 1) @@
    (<<"B", "b">> :> 1) @@ (<<"B">> :> 2)

\* Note.base_notes[base_note]: an absent key raises KeyError
Lookup(base_note) ==
    IF base_note \in DOMAIN base_notes THEN Ret(base_notes[base_note])
    ELSE Exc("KeyError")

\* s[a:b] for 0 <= a <= b, and s[a:]
Slice(s, a, b) == SubSeq(s, a + 1, Min(b, Len(s)))
SliceFrom(s, a) == SubSeq(s, a + 1, Len(s))

\* s.endswith(c) for a character c
endswith(s, c) == s # <<>> /\ s[Len(s)] = c

\* s.find(c): the lowest index of c in s, -1 if there is none
find(s, c) ==
    IF \E k \in 1..Len(s) : s[k] = c
    THEN (CHOOSE k \in 1..Len(s) : s[k] = c /\ \A j \in 1..(k - 1) : s[j] # c) - 1
    ELSE -1

DigitVal ==
    ("0" :> 0) @@ ("1" :> 1) @@ ("2" :> 2) @@ ("3" :> 3) @@ ("4" :> 4) @@
    ("5" :> 5) @@ ("6" :> 6) @@ ("7" :> 7) @@ ("8" :> 8) @@ ("9" :> 9)
IsDigit(c) == c \in DOMAIN DigitVal
IsSign(c) == c = "+" \/ c = "-"

\* the number a sequence of decimal digits writes
RECURSIVE DigitsVal(_)
DigitsVal(ds) ==
    IF ds = <<>> THEN 0
    ELSE 10 * DigitsVal(SubSeq(ds, 1, Len(ds) - 1)) + DigitVal[ds[Len(ds)]]

RECURSIVE Pow10(_)
Pow10(k) == IF k = 0 THEN 1 ELSE 10 * Pow10(k - 1)

\* text without its sign, and the sign's factor
Unsigned(text) == IF text # <<>> /\ IsSign(text[1]) THEN Tail(text) ELSE text
SignOf(text) == IF text # <<>> /\ text[1] = "-" THEN -1 ELSE 1

\* int(text) on text without blanks and underscores: an optional sign and at
\* least one digit, anything else raises ValueError
int_lenient(text) ==
    LET ds == SelectSeq(Unsigned(text), IsDigit)
    IN  IF ds = <<>> THEN Ret(4) ELSE Ret(SignOf(text) * DigitsVal(ds))
int(text) ==
    LET ds == Unsigned(text)
    IN  IF ds # <<>> /\ \A k \in 1..Len(ds) : IsDigit(ds[k])
        THEN Ret(SignOf(text) * DigitsVal(ds))
        ELSE Exc("ValueError")

\* float(text) on text of signs, digits and points: an optional sign, then
\* digits with at most one point among them and at least one digit
float(text) ==
    LET body == Unsigned(text)
        p    == find(body, ".")
        ip   == IF p = -1 THEN body ELSE Slice(body, 0, p)
        fp   == IF p = -1 THEN <<>> ELSE SliceFrom(body, p + 1)
    IN  IF /\ ip \o fp # <<>>
           /\ \A k \in 1..Len(ip) : IsDigit(ip[k])
           /\ \A k \in 1..Len(fp) : IsDigit(fp[k])
        THEN Ret(Frac(SignOf(text) * DigitsVal(ip \o fp), Pow10(Len(fp))))
        ELSE Exc("ValueError")

\* the frequency 440 * 2**e
Hz440(e) == [base |-> 440, octaves |-> e]

\* 440 * 2**e as the code evaluates it: the power of a float raises
\* OverflowError from 2**1024 on
Pow2Hz(e) ==
    IF ~Lt(e, Frac(1024, 1)) THEN Exc("OverflowError") ELSE Ret(Hz440(e))

\* base_note of note_str2freq: the first two characters when they end in "#"
\* or "b", the first character otherwise (IndexError on an empty str)
BaseToken_first(note) == IF note = <<>> THEN Exc("IndexError") ELSE Ret(<<note[1]>>)
BaseToken(note) ==
    LET two == Slice(note, 0, 2)
    IN  IF endswith(two, "#") \/ endswith(two, "b") THEN Ret(two)
        ELSE IF note = <<>> THEN Exc("IndexError")
        ELSE Ret(<<note[1]>>)

\* i_cents of note_str2freq, -1 standing for None
CentsIndex(note) == IF find(note, "+") # -1 THEN find(note, "+") ELSE find(note, "-")

\* Note.note_str2freq(note)
note_str2freq(note) ==
    LET base_note == BaseToken(note)
        semitone_shift == Lookup(base_note.ret)
        i_cents == CentsIndex(note)
        cent_shift == IF i_cents = -1 THEN Ret(Zero)
                      ELSE float(SliceFrom(note, i_cents))
        octave == int(IF i_cents = -1
                      THEN SliceFrom(note, Len(base_note.ret))
                      ELSE Slice(note, Len(base_note.ret), i_cents))
    IN  IF base_note.raised # "none" THEN Exc(base_note.raised)
        ELSE IF semitone_shift.raised # "none" THEN Exc(semitone_shift.raised)
        ELSE IF cent_shift.raised # "none" THEN Exc(cent_shift.raised)
        ELSE IF octave.raised # "none" THEN Exc(octave.raised)
        ELSE Pow2Hz(Frac(
                 (1200 * (octave.ret - 4) + 100 * semitone_shift.ret)
                     * cent_shift.ret[2] + cent_shift.ret[1],
                 1200 * cent_shift.ret[2]))

\* Note.__init__(pitch, duration) with a str pitch
Note_str(pitch, duration) ==
    IF note_str2freq(pitch).raised # "none" THEN Exc(note_str2freq(pitch).raised)
    ELSE Ret(Note(note_str2freq(pitch).ret, duration))

(***************************************************************************)
(* The pure functions under test: a call is drawn at the start and applied *)
(***************************************************************************)
Floats ==
    {Frac(n, d) : n \in (-MaxNum)..MaxNum, d \in {1, 2}} \cup {PosInf, NegInf, NaN}
Parts == (-(MaxNum + 1))..(MaxNum + 1)
PyNums ==
    {Real(x) : x \in (-MaxNum)..MaxNum}
        \cup {z \in {Complex(re, im) : re \in Parts, im \in Parts} : HasAbs(z)}
Degrees == (-(MaxNum + 1))..(MaxNum + 1)
\* times and frequencies given to sawtooth: floats of few significant bits
SawTimes == {Frac(k, Pow2(j)) : k \in (-MaxNum)..MaxNum, j \in 0..(2 * MantBits)}
SawFreqs == {Frac(1, 1), Frac(-1, 1), Frac(1, 2)}

MaxChars == 4       \* longest str given to note_str2freq
Chars == {"A", "C", "#", "b", "3", "4", "5", "+", "-", "."}
Strs == SeqsUpTo(Chars, MaxChars)

PureCall(fn, args) == [fn |-> fn, args |-> args]
\* the functions under test and the calls the model makes of each
PureFns ==
    {"sanitize", "safe_division", "mod", "get_freq_from_scale_degree", "sawtooth",
     "get_freqs_from_scale__fixed_interval", "f", "note_str2freq", "Note"}
PureCalls(fn) ==
    CASE fn = "sanitize" -> {PureCall(fn, <<x>>) : x \in Floats}
      [] fn = "safe_division" ->
            {PureCall(fn, <<num, den>>) : num \in Floats, den \in Floats}
      [] fn = "mod" -> {PureCall(fn, <<a, b>>) : a \in PyNums, b \in PyNums}
      [] fn = "get_freq_from_scale_degree" ->
            {PureCall(fn, <<i, base_note, scale>>) :
                i \in Degrees, base_note \in {220, 440}, scale \in Scales}
      [] fn = "sawtooth" ->
            {PureCall(fn, <<t, f>>) : t \in SawTimes, f \in SawFreqs}
      [] fn = "get_freqs_from_scale__fixed_interval" ->
            {PureCall(fn, <<t, interval, base_note, scale>>) :
                t \in Degrees, interval \in 0..2, base_note \in {220, 440},
                scale \in Scales}
      [] fn = "f" -> {PureCall(fn, <<a, b>>) : a \in Sines, b \in Sines}
      [] fn = "note_str2freq" -> {PureCall(fn, <<note>>) : note \in Strs}
      [] fn = "Note" ->
            {PureCall(fn, <<pitch, 1>>) : pitch \in SeqsUpTo(Chars, MaxChars - 1)}

NoResult == [ret |-> None, raised |-> "not called"]

\* no pure function under test
PureIdle == pcall = PureCall("none", <<>>) /\ out = NoResult

PureStart(c) == pcall = c /\ out = NoResult

Apply(fn, result) ==
    /\ pcall.fn = fn
    /\ op' = fn
    /\ out' = result
    /\ raised' = result.raised
    /\ UNCHANGED <<pcall, scoreVars, envVars, playerVars, randVars>>

sanitize_call == Apply("sanitize", sanitize(pcall.args[1]))
safe_division_call ==
    Apply("safe_division", safe_division(pcall.args[1], pcall.args[2]))
mod_call == Apply("mod", mod(pcall.args[1], pcall.args[2]))
get_freq_from_scale_degree_call ==
    Apply("get_freq_from_scale_degree",
          get_freq_from_scale_degree(pcall.args[1], pcall.args[2], pcall.args[3]))
sawtooth_call == Apply("sawtooth", sawtooth(pcall.args[1], pcall.args[2]))
get_freqs_from_scale__fixed_interval_call ==
    Apply("get_freqs_from_scale__fixed_interval",
          get_freqs_from_scale__fixed_interval(pcall.args[1], pcall.args[2],
                                               pcall.args[3], pcall.args[4]))
f_call == Apply("f", wave002_f(pcall.args[1], pcall.args[2]))
note_str2freq_call == Apply("note_str2freq", note_str2freq(pcall.args[1]))
Note_call == Apply("Note", Note_str(pcall.args[1], pcall.args[2]))

NextPure ==
    \/ sanitize_call
    \/ safe_division_call
    \/ mod_call
    \/ get_freq_from_scale_degree_call
    \/ sawtooth_call
    \/ get_freqs_from_scale__fixed_interval_call
    \/ f_call
    \/ note_str2freq_call
    \/ Note_call

(***************************************************************************)
(* Specifications: one object under test each, the others left as built    *)
(***************************************************************************)
Start == op = "init" /\ raised = "none"

Fresh == Instrument(<<1>>, <<1>>)

\* no ScaleRandomPlayer under test
RandIdle ==
    /\ seed = 0
    /\ prov = <<>>
    /\ srp = [i \in {1, 2} |-> ScaleRandomPlayer(<<0>>, Const(440), 0, Const(0), Const(2))]
    /\ rret = [i \in {1, 2} |-> NoCall]
    /\ pend = <<>>

InitScore ==
    /\ Start
    /\ \E ns \in NoteLists : ScoreStart(ns)
    /\ EnvStart(ScenarioADSR)
    /\ PlayerStart(Fresh, 0)
    /\ RandIdle
    /\ PureIdle

SpecScore == InitScore /\ [][NextScore]_vars

InitEnv ==
    /\ Start
    /\ ScoreStart(<<>>)
    /\ \E e \in Envelopes : EnvStart(e)
    /\ PlayerStart(Fresh, 0)
    /\ RandIdle
    /\ PureIdle

SpecEnv == InitEnv /\ [][NextEnv]_vars

\* envelopes with an attack, decay or release of zero
ZeroEnvelopes ==
    {e \in {ADSR(a, d, s, r) : a \in 0..1, d \in 0..1, s \in Sustains, r \in 0..1} :
        e.attack = 0 \/ e.decay = 0 \/ e.release = 0}

InitEnvZero ==
    /\ Start
    /\ ScoreStart(<<>>)
    /\ \E e \in ZeroEnvelopes : EnvStart(e)
    /\ PlayerStart(Fresh, 0)
    /\ RandIdle
    /\ PureIdle

SpecEnvZero == InitEnvZero /\ [][NextEnv]_vars

\* the envelope of a driver that keeps calling get_amplitude with dt > 0, as
\* the sample loop does once per sample
Tick == \E dt \in 1..MaxDt : get_amplitude(dt)
SpecEnvLive == InitEnv /\ [][NextEnv]_vars /\ WF_vars(Tick)

InitPlayer ==
    /\ Start
    /\ ScoreStart(<<>>)
    /\ \E e \in PlayerEnvelopes : EnvStart(e)
    /\ \E i \in Instruments, press_time \in PressTimes : PlayerStart(i, press_time)
    /\ RandIdle
    /\ PureIdle

SpecPlayer == InitPlayer /\ [][NextPlayer]_vars

InitRand ==
    /\ Start
    /\ ScoreStart(<<>>)
    /\ EnvStart(ScenarioADSR)
    /\ PlayerStart(Fresh, 0)
    /\ \E scale \in Scales, sd \in Seeds, k \in Knobs :
            RandStart(scale, k[1], sd, k[2], k[3])
    /\ PureIdle

SpecRand == InitRand /\ [][NextRand]_vars

\* one sequencer under test: a PresetScore given notes, or two
\* ScaleRandomPlayers and a PresetScore given none
InitSeq ==
    /\ Start
    /\ EnvStart(ScenarioADSR)
    /\ PlayerStart(Fresh, 0)
    /\ PureIdle
    /\ \/ (\E ns \in NoteLists \ {<<>>} : ScoreStart(ns)) /\ RandIdle
       \/ /\ ScoreStart(<<>>)
          /\ \E scale \in Scales, sd \in Seeds, k \in Knobs :
                 RandStart(scale, k[1], sd, k[2], k[3])

NextSeq ==
    \/ notes # <<>> /\ NextScore
    \/ notes = <<>> /\ NextRand

SpecSeq == InitSeq /\ [][NextSeq]_vars

InitPure ==
    /\ Start
    /\ ScoreStart(<<>>)
    /\ EnvStart(ScenarioADSR)
    /\ PlayerStart(Fresh, 0)
    /\ RandIdle
    /\ \E fn \in PureFns : \E c \in PureCalls(fn) : PureStart(c)

SpecPure == InitPure /\ [][NextPure]_vars

(***************************************************************************)
(* Claims about PresetScore, checked under SpecScore                       *)
(***************************************************************************)
\* the list [(440, 1.0), (880, 1.0)], one tick being dt = 0.5 s
ScenarioNotes == <<Note(440, 2), Note(880, 2)>>

\* get_note has been called n times, each time with dt = 0.5, on the
\* score built from ScenarioNotes
ScenarioCall(n) == notes = ScenarioNotes /\ scalls = n

\* C1 as the spec states it: with notes [(440, 1.0), (880, 1.0)] and dt = 0.5,
\* calls 1-2 return 440, calls 3-4 return 880 and every later call returns 0
\* with score_end true.
C1_TwoCallsPerNote ==
    \A n \in 1..MaxCalls :
        ScenarioCall(n) =>
            /\ n \in 1..2 => sret = 440 /\ ~ps.score_end
            /\ n \in 3..4 => sret = 880 /\ ~ps.score_end
            /\ n >= 5 => sret = 0 /\ ps.score_end

\* C1 amended: with notes [(440, 1.0), (880, 1.0)] and dt = 0.5, calls 1-3
\* return 440, calls 4-6 return 880, and every later call returns 0 with
\* score_end true (each note sounds for duration/dt + 1 calls).
C1_ThreeCallsPerNote ==
    \A n \in 1..MaxCalls :
        ScenarioCall(n) =>
            /\ n \in 1..3 => sret = 440 /\ ~ps.score_end
            /\ n \in 4..6 => sret = 880 /\ ~ps.score_end
            /\ n >= 7 => sret = 0 /\ ps.score_end

\* the seventh call of the scenario has returned silence
C1_Witness == ScenarioCall(7) /\ sret = 0 /\ ps.score_end

\* C8: a get_note call that needs a note while the queue is empty sets
\* score_end, returns 0 and changes nothing else (the IndexError is caught,
\* nothing is raised); once score_end is true every later call, whatever its
\* dt, returns 0 and leaves the whole state as it is.
C8_ExhaustionIsTerminal ==
    [][op' = "get_note" =>
         /\ (NeedsNote(ps) /\ ps.frequencies = <<>>) =>
                (sret' = 0 /\ ps' = [ps EXCEPT !.score_end = TRUE])
         /\ ps.score_end => (sret' = 0 /\ ps' = ps)]_vars

\* a score of at least one note has been played to its end
C8_Witness ==
    Len(notes) > 0 /\ op = "get_note" /\ ps.score_end /\ sret = 0

\* position of the note of pitch p in the constructor's list, 0 if none
Pos(p) ==
    IF \E i \in 1..Len(notes) : notes[i].pitch = p
    THEN CHOOSE i \in 1..Len(notes) : notes[i].pitch = p
    ELSE 0

DistinctPitches ==
    \A i, j \in 1..Len(notes) : notes[i].pitch = notes[j].pitch => i = j

\* number of notes taken from the queue
Taken(s) == Len(notes) - Len(s.frequencies)

\* C9: the notes are played in queue order.  A call that does not end the
\* score returns the pitch of the note taken last, which is the note of the
\* call before or the one right after it in the constructor's list; the score
\* ends only after the last note was returned.  For lists of distinct pitches
\* the same is stated on the returned values alone.
C9_QueueOrder ==
    [][op' = "get_note" =>
         IF ps'.score_end
         THEN /\ Taken(ps) = Len(notes)
              /\ DistinctPitches /\ ~ps.score_end => Pos(sret) = Len(notes)
         ELSE /\ Taken(ps') \in {Taken(ps), Taken(ps) + 1}
              /\ Taken(ps') >= 1
              /\ sret' = notes[Taken(ps')].pitch
              /\ DistinctPitches => Pos(sret') \in {Pos(sret), Pos(sret) + 1}]_vars

\* the second of two notes sounds after a first note of negative duration
C9_Witness ==
    /\ Len(notes) = 2 /\ DistinctPitches
    /\ notes[1].duration < 0 /\ notes[2].duration = 0
    /\ op = "get_note" /\ sret = notes[2].pitch /\ ~ps.score_end

(***************************************************************************)
(* Claims about the ADSR envelope, checked under SpecEnv                   *)
(***************************************************************************)
SameADSR(e, f) ==
    /\ e.attack = f.attack /\ e.decay = f.decay
    /\ e.sustain = f.sustain /\ e.release = f.release

\* the scenario's envelope has been pressed and then given n get_amplitude
\* calls of dt = 0.01, with no unpress() since
ScenarioPressed(n) ==
    SameADSR(env, ScenarioADSR) /\ env.pressed /\ calls = n

\* C2: ADSR(0.1, 0.1, 0.5, 0.2) pressed and ticked with dt = 0.01 and never
\* unpressed: the call that moves it from Attack to Decay (the 12th) returns
\* exactly 1, it enters Sustain (at the 24th call, not before), and from then
\* on every call returns 0.5 and leaves it in Sustain.
C2_PressedScenario ==
    \A n \in 1..MaxCalls :
        ScenarioPressed(n) =>
            /\ n < 12 => env.status = ATTACK
            /\ n = 12 => env.status = DECAY /\ amp = One
            /\ n \in 12..23 => env.status = DECAY
            /\ n >= 24 => env.status = SUSTAIN /\ FracEq(amp, Frac(1, 2))

\* the scenario has been ticked past its 24th call and is held in Sustain
C2_Witness ==
    /\ MaxCalls > 24 /\ ScenarioPressed(MaxCalls)
    /\ op = "get_amplitude" /\ env.status = SUSTAIN

\* the scenario's envelope was unpressed in Sustain and then given n
\* get_amplitude calls of dt = 0.01, with no press() since
ScenarioReleased(n) == SameADSR(env, ScenarioADSR) /\ rel = n

\* C3 as the spec states it: a call returning 0 occurs no later than
\* release/dt = 20 get_amplitude calls after the unpress().
C3_ZeroWithinRelease ==
    ScenarioReleased(20) => zero

\* C3 amended: the first call returning 0 is the 22nd after the unpress()
\* (one call that leaves Sustain, then the release ramp at elapsed 0, dt, ...,
\* release), every call before it returns a positive amplitude, every later
\* call returns 0, and the envelope is idle by the 23rd call.
C3_ZeroAfterReleasePlusTwo ==
    \A n \in 1..MaxCalls :
        ScenarioReleased(n) =>
            /\ n < 22 => ~zero /\ ~FracLe(amp, Zero)
            /\ n >= 22 => zero /\ FracEq(amp, Zero)
            /\ n >= 23 => env.status = NONE

\* the 23rd call after the unpress() has found the envelope idle
C3_Witness ==
    /\ ScenarioReleased(23) /\ op = "get_amplitude"
    /\ env.status = NONE /\ zero /\ ~env.pressed

\* C4: press() in any state leaves the envelope in Attack with elapsed 0 and
\* pressed true, and the get_amplitude call that follows it returns 0.
C4_PressRestartsAttack ==
    [][/\ op' = "press" =>
            env'.status = ATTACK /\ env'.t = 0 /\ env'.pressed
       /\ (op = "press" /\ op' = "get_amplitude") =>
            FracEq(amp', Zero) /\ raised' = "none"]_vars

\* press() has just been called on an envelope that was in Release
C4_Witness ==
    /\ op = "press" /\ was = RELEASE
    /\ env.status = ATTACK /\ env.t = 0 /\ env.pressed

\* C5: unpress() changes the pressed flag only.  In Attack and Decay the
\* envelope, unpressed or not, is where the never-unpressed envelope is and a
\* get_amplitude call takes both to the same status and elapsed time and
\* returns the same amplitude; Release is entered from Sustain only, by a
\* get_amplitude call.
C5_UnpressWaitsForSustain ==
    [][/\ op' = "unpress" => env' = [env EXCEPT !.pressed = FALSE]
       /\ (op' = "get_amplitude" /\ env.status \in {ATTACK, DECAY}) =>
            /\ ref.status = env.status /\ ref.t = env.t
            /\ env'.status = ref'.status /\ env'.t = ref'.t
            /\ amp' = refamp'
            /\ env'.status \in {ATTACK, DECAY, SUSTAIN}
       /\ (env'.status = RELEASE /\ env.status # RELEASE) =>
            op' = "get_amplitude" /\ env.status = SUSTAIN]_vars

\* an envelope unpressed before it reached Sustain has just reached it
C5_Witness ==
    /\ op = "get_amplitude" /\ was = DECAY
    /\ env.status = SUSTAIN /\ ~env.pressed /\ ref.status = SUSTAIN

\* C6: a get_amplitude call in Sustain returns sustain; with pressed true it
\* changes nothing, with pressed false it moves the envelope to Release with
\* elapsed 0.
C6_SustainHoldsWhilePressed ==
    [][(op' = "get_amplitude" /\ env.status = SUSTAIN) =>
          /\ amp' = env.sustain
          /\ raised' = "none"
          /\ env' = IF env.pressed THEN env
                    ELSE [env EXCEPT !.status = RELEASE, !.t = 0]]_vars

\* a call in Sustain with pressed false has moved the envelope to Release
C6_Witness ==
    /\ op = "get_amplitude" /\ was = SUSTAIN
    /\ env.status = RELEASE /\ env.t = 0 /\ amp = env.sustain

Called == IF pend = <<>> THEN 1 ELSE 2
GetNoteStep == pend' # pend

\* number of times the callable named n occurs in the invocations inv
Times_invoked(inv, n) == Cardinality({k \in 1..Len(inv) : inv[k] = n})

\* what a constructor argument resolves to when resolved now
ResolvedNow(var) == IF var.callable THEN prov[var.value] ELSE var.value

\* C11: a get_note call that draws a new note (the first call, or one that
\* finds the residual duration negative) invokes each of base_note,
\* min_note_duration and max_note_duration that is a callable exactly once
\* and draws the note from the values they return now; a call that does not
\* draw invokes none of them and returns the note of the call before, with
\* its pitch unchanged, whatever the callables would return now.
C11_ProvidersOncePerDraw ==
    [][GetNoteStep =>
        LET i == Called
            s == srp[i]
            dt == IF i = 1 THEN Head(pend') ELSE Head(pend)
            draws == s.note_duration = None \/ s.note_duration[1] < 0
            lo == ResolvedNow(s.min_note_duration) * RndMod
            hi == ResolvedNow(s.max_note_duration) * RndMod
            d  == srp'[i].note_duration[1] + dt * RndMod
        IN  /\ draws =>
                  \A n \in {"base_note", "min_note_duration", "max_note_duration"} :
                      Times_invoked(rret'[i].invoked, n)
                          = IF s[n].callable THEN 1 ELSE 0
            /\ draws /\ raised' = "none" =>
                  /\ srp'[i].note_freq[1].base = ResolvedNow(s.base_note)
                  /\ (lo <= d /\ d <= hi) \/ (hi <= d /\ d <= lo)
            /\ ~draws =>
                  /\ rret'[i].invoked = <<>>
                  /\ srp'[i].note_freq = s.note_freq
                  /\ rret'[i].ret = s.note_freq
                  /\ rret'[i].ret = rret[i].ret]_vars

\* a call that did not draw has returned a note in the key the base_note
\* callable returned when the note was drawn, not the one it returns now
C11_Witness ==
    /\ op = "srp_get_note" /\ pend = <<>>
    /\ srp[1].base_note.callable
    /\ rret[1].invoked = <<>>
    /\ rret[1].ret # None /\ rret[1].ret[1].base # prov["base_note"]

\* C12: on an instance with a non-empty scale every get_note call returns
\* (it raises nothing and returns no None) the frequency base * 2^(s/12) of
\* an offset s of the scale; on a call that draws, base is what base_note
\* resolves to at that call, and a call that does not draw returns what the
\* call before returned.
C12_AlwaysAScaleNote ==
    [][GetNoteStep =>
        LET i == Called
            s == srp[i]
            draws == s.note_duration = None \/ s.note_duration[1] < 0
        IN  s.scale # <<>> =>
              /\ raised' = "none"
              /\ rret'[i].ret # None
              /\ \E k \in 1..Len(s.scale) :
                      rret'[i].ret[1].semitones = s.scale[k]
              /\ draws => rret'[i].ret[1].base = ResolvedNow(s.base_note)
              /\ ~draws => rret'[i].ret = rret[i].ret]_vars

\* an instance has drawn its second note, one above the key note
C12_Witness ==
    /\ op = "srp_get_note"
    /\ rret[1].draws = 2 /\ rret[1].raised = "none"
    /\ rret[1].ret # None /\ rret[1].ret[1].semitones > 0

(***************************************************************************)
(* Claims about the pure functions, checked under SpecPure                 *)
(***************************************************************************)
\* the i-th position of a scale counted from its start
IsPosition(scale, i) == 0 <= i /\ i < Len(scale)

\* C13 as the spec states it: get_freq_from_scale_degree(i, base_note, scale)
\* raises IndexError for every i with i < 0 or i >= len(scale) and returns
\* get_freq_from_interval(base_note, scale[i]) for 0 <= i < len(scale).
C13_OutsideScaleFails ==
    op = "get_freq_from_scale_degree" =>
        LET i == pcall.args[1]
            base_note == pcall.args[2]
            scale == pcall.args[3]
        IN  IF IsPosition(scale, i)
            THEN out = Ret(get_freq_from_interval(base_note, scale[i + 1]))
            ELSE out.raised = "IndexError"

\* the base-note token of a note string: two characters when the second is
\* "#" or "b", one character otherwise
TokenOf(note) ==
    IF Len(note) >= 2 /\ note[2] \in {"#", "b"} THEN SubSeq(note, 1, 2)
    ELSE SubSeq(note, 1, Min(1, Len(note)))

\* text that writes an integer: an optional sign and at least one digit
IsIntegerText(text) ==
    \E k \in 0..1 :
        /\ Len(text) > k
        /\ k = 1 => IsSign(text[1])
        /\ \A j \in (k + 1)..Len(text) : text[j] \in DOMAIN DigitVal

\* the token of the note is in the table and an integer stands between it
\* and a cents marker, or the end of the string
WellFormed(note) ==
    /\ TokenOf(note) \in DOMAIN base_notes
    /\ \E k \in Len(TokenOf(note))..Len(note) :
           /\ IsIntegerText(SubSeq(note, Len(TokenOf(note)) + 1, k))
           /\ k = Len(note) \/ IsSign(note[k + 1])

\* C14: note_str2freq, and Note built from a string pitch, raise an error
\* and return nothing for every string whose base-note token is not in the
\* table or in which no integer stands between the token and the cents
\* marker or the end of the string.
C14_MalformedNoteFails ==
    op \in {"note_str2freq", "Note"} =>
        /\ out.raised = "none" => WellFormed(pcall.args[1])
        /\ out.raised # "none" => out.ret = None

\* Note("A+5", 1), whose octave field is empty, has raised ValueError
C14_Witness ==
    /\ op = "Note" /\ pcall.args[1] = <<"A", "+", "5">>
    /\ out.raised = "ValueError"

\* base notes, octaves and cents suffixes as texts with what they mean
NoteTokens ==
    {[text |-> <<"A">>, val |-> 0], [text |-> <<"A", "#">>, val |-> 1],
     [text |-> <<"A", "b">>, val |-> -1], [text |-> <<"C">>, val |-> -9],
     [text |-> <<"C", "#">>, val |-> -8]}
NoteOctaves ==
    {[text |-> <<"3">>, val |-> 3], [text |-> <<"4">>, val |-> 4],
     [text |-> <<"5">>, val |-> 5], [text |-> <<"3", "5">>, val |-> 35],
     [text |-> <<"5", "4">>, val |-> 54]}
NoteCents ==
    {[text |-> <<>>, val |-> Frac(0, 1)],
     [text |-> <<"+", "5">>, val |-> Frac(5, 1)],
     [text |-> <<"-", "4">>, val |-> Frac(-4, 1)],
     [text |-> <<"+", ".", "5">>, val |-> Frac(1, 2)],
     [text |-> <<"-", "3", ".">>, val |-> Frac(-3, 1)],
     [text |-> <<"-", "4", ".", "5">>, val |-> Frac(-9, 2)]}

\* (octave - 4) + semitones/12 + cents/1200
NoteExponent(tk, oc, ce) ==
    Frac((1200 * (oc.val - 4) + 100 * tk.val) * ce.val[2] + ce.val[1],
         1200 * ce.val[2])

\* the call returned 440 * 2**e
ReturnsHz(e) ==
    out.raised = "none" /\ out.ret.base = 440 /\ FracEq(out.ret.octaves, e)

\* C15: note_str2freq("A4") is 440 * 2**0, "A5" gives 440 * 2**1 and "A3"
\* 440 * 2**-1, and the string made of a base note of the table, an octave
\* number and an optional signed cents suffix gives
\* 440 * 2**((octave - 4) + semitones/12 + cents/1200).
C15_A4Is440 ==
    op = "note_str2freq" =>
        /\ pcall.args[1] = <<"A", "4">> => ReturnsHz(Frac(0, 1))
        /\ pcall.args[1] = <<"A", "5">> => ReturnsHz(Frac(1, 1))
        /\ pcall.args[1] = <<"A", "3">> => ReturnsHz(Frac(-1, 1))
        /\ \A tk \in NoteTokens, oc \in NoteOctaves, ce \in NoteCents :
               pcall.args[1] = tk.text \o oc.text \o ce.text =>
                   ReturnsHz(NoteExponent(tk, oc, ce))

\* "C#5" has been converted: one octave up, eight semitones down
C15_Witness ==
    /\ op = "note_str2freq" /\ pcall.args[1] = <<"C", "#", "5">>
    /\ ReturnsHz(Frac(4, 12))

\* x <= y on floats
Le(x, y) == Lt(x, y) \/ Eq(x, y)

\* C16 as the spec states it: sanitize(x) returns x for -1 <= x <= 1, +1 for
\* x > 1 and -1 for x < -1.
C16_ClampsToUnitInterval ==
    op = "sanitize" =>
        LET x == pcall.args[1]
        IN  /\ out.raised = "none"
            /\ Le(Frac(-1, 1), x) /\ Le(x, One) => Eq(out.ret, x)
            /\ Gt(x, One) => Eq(out.ret, One)
            /\ Lt(x, Frac(-1, 1)) => Eq(out.ret, Frac(-1, 1))

\* C17: for every input, NaN and the infinities included, sanitize returns
\* a finite number in [-1, +1]; for NaN it returns 0.
C17_NeverPropagatesNaN ==
    op = "sanitize" =>
        /\ out.raised = "none"
        /\ IsFinite(out.ret)
        /\ Le(Frac(-1, 1), out.ret) /\ Le(out.ret, One)
        /\ isnan(pcall.args[1]) => Eq(out.ret, Zero)

\* sanitize(NaN) has returned 0
C17_Witness ==
    op = "sanitize" /\ isnan(pcall.args[1]) /\ Eq(out.ret, Zero)

\* |z| of a real or complex number
Magnitude(z) ==
    IF z.complex THEN abs(z) ELSE IF z.re < 0 THEN -z.re ELSE z.re

\* C18 as the spec states it: mod(a, b) returns 0 when b == 0 and otherwise
\* the remainder of |a| by |b|, which is never negative, for real inputs of
\* either sign and for complex inputs.
C18_RemainderOfMagnitudes ==
    op = "mod" =>
        LET a == pcall.args[1]
            b == pcall.args[2]
        IN  /\ out.raised = "none"
            /\ out.ret = IF Magnitude(b) = 0 THEN 0
                         ELSE Magnitude(a) % Magnitude(b)

\* C20: safe_division(num, den) raises nothing; for den == 0 it returns
\* +inf when num > 0, -inf when num < 0 and NaN when num == 0, and for
\* den # 0 it returns num/den (for finite num and den the number q with
\* q * den = num).
C20_SafeDivision ==
    op = "safe_division" =>
        LET num == pcall.args[1]
            den == pcall.args[2]
        IN  /\ out.raised = "none"
            /\ Eq(den, Zero) /\ Gt(num, Zero) => out.ret = PosInf
            /\ Eq(den, Zero) /\ Lt(num, Zero) => out.ret = NegInf
            /\ Eq(den, Zero) /\ Eq(num, Zero) => isnan(out.ret)
            /\ ~Eq(den, Zero) => out.ret = Div(num, den)
            /\ ~Eq(den, Zero) /\ IsFinite(num) /\ IsFinite(den) =>
                   /\ IsFinite(out.ret)
                   /\ out.ret[1] * den[1] * num[2] = num[1] * out.ret[2] * den[2]

\* safe_division(-3/2, 0) has returned -inf
C20_Witness ==
    /\ op = "safe_division"
    /\ pcall.args[1] = Frac(-3, 2) /\ Eq(pcall.args[2], Zero)
    /\ out.ret = NegInf

(***************************************************************************)
(* Claims about envelopes with a zero duration, checked under SpecEnvZero  *)
(***************************************************************************)
\* C19 as the spec states it: get_amplitude on an ADSR whose attack, decay
\* or release is 0 never raises: every call returns an amplitude.
C19_ZeroDurationNeverRaises ==
    op = "get_amplitude" => raised = "none"

(***************************************************************************)
(* Claims about sawtooth and the repeated scale, checked under SpecPure    *)
(***************************************************************************)
\* C21 as the spec states it: for all t and f, negative products f*t
\* included, sawtooth(t, f) lies in [-1, 1) and never equals +1.
C21_SawtoothBelowOne ==
    op = "sawtooth" =>
        /\ out.raised = "none"
        /\ Le(Frac(-1, 1), out.ret)
        /\ Lt(out.ret, One)

\* C22 as the spec states it: get_freqs_from_scale__fixed_interval(t,
\* interval, base_note, scale) returns get_freq_from_scale_degree(i,
\* base_note, scale) for i = floor(t/interval) mod len(scale), in the key of
\* the base_note it is given.
C22_RepeatsScaleInGivenKey ==
    op = "get_freqs_from_scale__fixed_interval" =>
        LET t == pcall.args[1]
            interval == pcall.args[2]
            base_note == pcall.args[3]
            scale == pcall.args[4]
        IN  interval > 0 /\ scale # <<>> =>
                out = get_freq_from_scale_degree(
                          (t \div interval) % Len(scale), base_note, scale)

(***************************************************************************)
(* Claims about the instrument and the player, checked under SpecPlayer    *)
(***************************************************************************)
Volumes == {Frac(0, 1), Frac(1, 2), Frac(1, 1), Frac(3, 2), Frac(-1, 2)}
Twice(x) == Frac(2 * x[1], x[2])

\* C23: Instrument.get_sample is linear in volume, without normalisation or
\* clamping: get_sample(t, f, 2v) = 2 * get_sample(t, f, v) and
\* get_sample(t, f, 0) = 0 for every t, f and v; the sample a Player returns
\* is the instrument's sample at the envelope's amplitude, so it is zero when
\* the envelope emits amplitude 0.
C23_LinearInVolume ==
    /\ \A t \in Times, f \in Freqs, v \in Volumes :
           /\ FracEq(Instrument_get_sample(ins, t, f, Twice(v)),
                     Twice(Instrument_get_sample(ins, t, f, v)))
           /\ FracEq(Instrument_get_sample(ins, t, f, Zero), Zero)
    /\ op = "get_sample" /\ raised = "none" =>
           /\ \E t \in Times, f \in Freqs :
                  sample = Instrument_get_sample(ins, t, f, amp)
           /\ \A t \in Times, f \in Freqs :
                  sample = Instrument_get_sample(ins, t, f, amp) =>
                      FracEq(Twice(sample),
                             Instrument_get_sample(ins, t, f, Twice(amp)))
           /\ FracEq(amp, Zero) => FracEq(sample, Zero)

\* a player has returned a non-zero sample at full amplitude from an
\* instrument whose partials add up to more than 1, and twice the volume
\* would give more than 1
C23_Witness ==
    /\ op = "get_sample" /\ raised = "none"
    /\ FracEq(amp, One) /\ ~FracEq(sample, Zero)
    /\ \E t \in Times, f \in Freqs :
           /\ sample = Instrument_get_sample(ins, t, f, amp)
           /\ Abs(Instrument_get_sample(ins, t, f, Twice(amp))[1]) >
                  Instrument_get_sample(ins, t, f, Twice(amp))[2]

(***************************************************************************)
(* Claims about the envelope's stages, checked under SpecEnv               *)
(***************************************************************************)
\* the duration of the stage an envelope is in
StageLength(e) == CASE e.status = ATTACK  -> e.attack
                    [] e.status = DECAY   -> e.decay
                    [] e.status = RELEASE -> e.release

Between(lo, x, hi) == FracLe(lo, x) /\ FracLe(x, hi)

C26_ReleaseNeverPlayed ==
    /\ [](op = "get_sample" =>
            /\ raised = "none"
            /\ found \notin {RELEASE, NONE}
            /\ env.status # NONE)
    /\ [][op' = "get_sample" /\ ~env.pressed =>
            /\ "press" \in ev'
            /\ found' = ATTACK
            /\ FracEq(amp', Zero)]_vars

\* the call after the one that left the envelope unpressed and in Release has
\* pressed it and read its amplitude in Attack
C26_Witness ==
    /\ op = "get_sample" /\ was = RELEASE
    /\ "press" \in ev /\ found = ATTACK /\ FracEq(amp, Zero)

(***************************************************************************)
(* The envelope's way back to Idle, checked under SpecEnvLive              *)
(***************************************************************************)
\* the stage that follows a stage
NextStage(st) == CASE st = ATTACK  -> DECAY
                   [] st = DECAY   -> SUSTAIN
                   [] st = SUSTAIN -> RELEASE
                   [] st = RELEASE -> NONE
                   [] st = NONE    -> NONE

\* C27: an envelope with positive durations that is ticked with dt > 0 and
\* is unpressed in a state other than Idle reaches Idle after finitely many
\* get_amplitude calls unless press() is called again; until then it goes
\* through the remaining stages in the order Attack, Decay, Sustain, Release,
\* and once Idle every call returns 0 and leaves it Idle.
C27_EventuallyIdle ==
    /\ (~env.pressed /\ env.status # NONE) ~> (env.status = NONE \/ env.pressed)
    /\ [][op' = "get_amplitude" =>
            /\ env'.status \in {env.status, NextStage(env.status)}
            /\ env.status = NONE => env'.status = NONE /\ FracEq(amp', Zero)]_vars
    /\ [][op' = "unpress" => env'.status = env.status]_vars

\* an envelope unpressed during its attack has gone through every stage and
\* a call in Idle has returned 0
C27_Witness ==
    /\ op = "get_amplitude" /\ was = NONE /\ env.status = NONE
    /\ ~env.pressed /\ rel = -1 /\ calls > env.attack + env.decay + 4
    /\ FracEq(amp, Zero)

(***************************************************************************)
(* How long the sequencers hold a note, checked under SpecSeq              *)
(***************************************************************************)
\* the residual of a note of duration d after k calls of dt, in the unit of d
Residual(h, k, unit) == h.d - k * h.dt * unit

\* a note has been returned by h.n calls: none of the earlier calls left a
\* negative residual
StillHeld(h, unit) == \A k \in 1..(h.n - 1) : Residual(h, k, unit) >= 0

C29_ModulationBounded ==
    op = "f" =>
        LET a == pcall.args[1]
            b == pcall.args[2]
            m == out.ret
        IN  /\ out.raised = "none"
            /\ ExponentField(m) < 255
            /\ m.mag <= Min(a.mag, b.mag)
            /\ Negative(m) => Negative(a) /\ Negative(b)

\* two different negative sines gave a negative m smaller in magnitude than
\* both, and not zero
C29_Witness ==
    /\ op = "f"
    /\ Negative(pcall.args[1]) /\ Negative(pcall.args[2]) /\ Negative(out.ret)
    /\ out.ret.mag < Min(pcall.args[1].mag, pcall.args[2].mag)
    /\ ExponentField(pcall.args[1]) # ExponentField(pcall.args[2])

====
